---- MODULE Spec2Model ----
(***************************************************************************)
(* The bidding and auction-closing workflow of the auctions application    *)
(* (auctions/views.py, auctions/models.py).                                *)
(*                                                                         *)
(* Money is a decimal with two places; the model keeps it as an integer    *)
(* number of cents, which preserves the order and the zero test of         *)
(* Python's Decimal.  A form input is the decimal the text parses to       *)
(* (sign, coefficient, number of decimal places), or a text that is no     *)
(* number, or an empty field.                                              *)
(*                                                                         *)
(* Rows of a table are kept in insertion order; the primary key of a row   *)
(* is its index.  Bid.datetime is stamped by the save (auto_now_add) from  *)
(* a clock that every save reads at a later instant; the save inserts the  *)
(* row after it has read the clock, so overlapping saves may insert in the *)
(* other order.                                                            *)
(***************************************************************************)
EXTENDS Integers, Sequences, FiniteSets, TLC

\* ------------------------------------------------------------- bounds
MaxListings == 1
MaxBids == 2
MaxCoef == 1
MaxWatch == 1

\* ---------------------------------------------------------- constants
\* Python's None and SQL NULL; every amount and every primary key is >= 0.
None == -1
FormMaxDigits == 10
FormDecimalPlaces == 2
FormMinValue == 0

\* request.user / user_id: the primary keys of two registered users.
Users == {1, 2}

\* The users who publish listings.
Sellers == {1}

\* The users whose watchlist is edited.
Watchers == {2}

\* ---------------------------------------------------------- form input
Dec(neg, coef, places) ==
    [kind |-> "dec", neg |-> neg, coef |-> coef, places |-> places]

Text == [kind |-> "text", neg |-> FALSE, coef |-> 0, places |-> 0]

Empty == [kind |-> "empty", neg |-> FALSE, coef |-> 0, places |-> 0]

\* Posts the decimal fields refuse: a negative amount, three decimal places,
\* nine whole digits, a text that is no number, nothing.
InvalidInputs ==
    { Dec(TRUE, 1, 0), Dec(FALSE, 1005, 3), Dec(FALSE, 123456789, 0), Text, Empty }

\* What is posted as a bid: 0.5, the whole amounts 0 .. MaxCoef, and the
\* posts the field refuses.
BidInputs ==
    { Dec(FALSE, c, 0) : c \in 0 .. MaxCoef } \cup { Dec(FALSE, 5, 1) }
        \cup InvalidInputs

\* What is posted as a starting bid: 0, 0.50, and the posts the field refuses.
PriceInputs == { Dec(FALSE, 0, 0), Dec(FALSE, 50, 2) } \cup InvalidInputs

RECURSIVE NumDigits(_)
NumDigits(n) == IF n < 10 THEN 1 ELSE 1 + NumDigits(n \div 10)

RECURSIVE Pow10(_)
Pow10(k) == IF k = 0 THEN 1 ELSE 10 * Pow10(k - 1)

\* The coefficient with its sign.
SignedCoef(inp) == IF inp.neg THEN 0 - inp.coef ELSE inp.coef

\* DecimalValidator: digits and decimals of the parsed decimal.
FormDigits(inp) ==
    IF inp.places > NumDigits(inp.coef) THEN inp.places ELSE NumDigits(inp.coef)

FormDecimals(inp) == inp.places

\* forms.DecimalField(decimal_places=2, max_digits=10, min_value=0), required.
DecimalFieldValid(inp) ==
    /\ inp.kind = "dec"
    /\ FormDigits(inp) <= FormMaxDigits
    /\ FormDecimals(inp) <= FormDecimalPlaces
    /\ FormDigits(inp) - FormDecimals(inp) <= FormMaxDigits - FormDecimalPlaces
    /\ SignedCoef(inp) >= FormMinValue * Pow10(inp.places)

\* cleaned_data of a valid decimal field, in cents.
Cleaned(inp) == SignedCoef(inp) * Pow10(FormDecimalPlaces - inp.places)

\* ---------------------------------------------------------------- state
VARIABLES
    listings,   \* table Listing: rows [price, is_active, winner, owner]
    bids,       \* table Bid: rows [value, datetime, user, listing]
    watchlist,  \* table Watchlist: rows [user, listing]
    now,        \* the clock auto_now_add reads
    inflight,   \* a bid request that has read the latest bid and not yet inserted
    closing,    \* per user, a close request that has read the latest bid and not yet saved
    viewing,    \* a listing page that has read the latest bid and not yet answered
    resp        \* what the last finished request answered

vars == <<listings, bids, watchlist, now, inflight, closing, viewing, resp>>

NoRequest ==
    [user |-> None, listing |-> None, value |-> None, last_bid |-> None,
     datetime |-> None]

\* No close request is between its read and its save.
NoClose ==
    [listing |-> None,
     row |-> [price |-> None, is_active |-> FALSE, winner |-> None, owner |-> None]]

\* No listing page is between its read of the latest bid and its answer.
NoView == [user |-> None, listing |-> None, last_bid |-> None]

Response(op, u, l, msg, last) ==
    [op |-> op, user |-> u, listing |-> l, msg |-> msg, last_bid |-> last]

ListingIds == 1 .. Len(listings)

\* ------------------------------------------------------------- queries
\* Bid.objects.filter(listing_id=l): the indices of the listing's bids.
BidsOf(l) == { i \in 1 .. Len(bids) : bids[i].listing = l }

\* Mutant of Latest: .earliest("datetime").
MutEarliest(l) ==
    CHOOSE i \in BidsOf(l) : \A j \in BidsOf(l) : bids[j].datetime >= bids[i].datetime

\* Mutant of Latest: the bid with the greatest value, .latest("value").
MutHighest(l) ==
    CHOOSE i \in BidsOf(l) : \A j \in BidsOf(l) : bids[j].value <= bids[i].value

\* .latest("datetime"): the bid of the listing with the greatest datetime.
\* Defined when BidsOf(l) is not empty (else Bid.DoesNotExist).
Latest(l) ==
    CHOOSE i \in BidsOf(l) : \A j \in BidsOf(l) : bids[j].datetime <= bids[i].datetime

\* views.bid: last_bid, the value of the latest bid or None.
LastBidValue(l) == IF BidsOf(l) = {} THEN None ELSE bids[Latest(l)].value

\* Python truth value of last_bid: None and Decimal zero are false.
Truthy(x) == x # None /\ x # 0

\* Mutant of BidIsValid: a bid equal to the latest bid is accepted.
MutBidIsValidTies(cleaned_bid, last_bid, price) ==
    \/ (Truthy(last_bid) /\ cleaned_bid >= last_bid)
    \/ (last_bid = None /\ cleaned_bid >= price)

\* Mutant of BidIsValid: a first bid is not compared with the starting price.
MutBidIsValidNoFloor(cleaned_bid, last_bid, price) ==
    \/ (Truthy(last_bid) /\ cleaned_bid > last_bid)
    \/ last_bid = None

\* Mutant of BidIsValid: a first bid must exceed the starting price.
MutBidIsValidStrictFirst(cleaned_bid, last_bid, price) ==
    \/ (Truthy(last_bid) /\ cleaned_bid > last_bid)
    \/ (last_bid = None /\ cleaned_bid > price)

\* views.bid: the condition under which the new bid is saved.
BidIsValid(cleaned_bid, last_bid, price) ==
    \/ (Truthy(last_bid) /\ cleaned_bid > last_bid)
    \/ (last_bid = None /\ cleaned_bid >= price)

\* ----------------------------------------------------------------- init
Init ==
    /\ listings = << >>
    /\ bids = << >>
    /\ watchlist = << >>
    /\ now = 1
    /\ inflight = NoRequest
    /\ closing = [u \in Users |-> NoClose]
    /\ viewing = NoView
    /\ resp = Response("none", None, None, "", None)

\* -------------------------------------------------------------- actions
\* views.new, POST with the other fields of the form valid.  The listing is
\* saved with is_active = True and winner = NULL (the model's defaults).
\* With an invalid form nothing is saved and the view fails on its unbound
\* local `listing`.
NewListing(u, inp) ==
    [price |-> Cleaned(inp), is_active |-> TRUE, winner |-> None, owner |-> u]

New(u, inp) ==
    /\ IF DecimalFieldValid(inp)
       THEN /\ Len(listings) < MaxListings
            /\ listings' = Append(listings, NewListing(u, inp))
            /\ resp' = Response("new", u, Len(listings) + 1,
                                "Listing published successfully.", None)
       ELSE /\ listings' = listings
            /\ resp' = Response("new", u, None, "Server Error (500)", None)
    /\ UNCHANGED <<bids, watchlist, now, inflight, closing, viewing>>

\* Mutant of BidDecide: the bid is saved before the decision is taken.
MutBidDecideSaves(u, l, cleaned_bid, last_bid) ==
    /\ Len(bids) + (IF inflight.datetime = None THEN 0 ELSE 1) < MaxBids
    /\ bids' = Append(bids, [value |-> cleaned_bid, datetime |-> now,
                             user |-> u, listing |-> l])
    /\ now' = now + 1
    /\ resp' = Response("bid", u, l,
                        IF BidIsValid(cleaned_bid, last_bid, listings[l].price)
                        THEN "Bid placed successfully." ELSE "Bid is not valid.",
                        None)

\* The second half of views.bid, from the decision on, with no other request
\* in between: save the bid (the save reads the clock and inserts the row) or
\* report that it is not valid.
BidDecide(u, l, cleaned_bid, last_bid) ==
    IF BidIsValid(cleaned_bid, last_bid, listings[l].price)
    THEN /\ Len(bids) + (IF inflight.datetime = None THEN 0 ELSE 1) < MaxBids
         /\ bids' = Append(bids, [value |-> cleaned_bid, datetime |-> now,
                                  user |-> u, listing |-> l])
         /\ now' = now + 1
         /\ resp' = Response("bid", u, l, "Bid placed successfully.", None)
    ELSE /\ UNCHANGED <<bids, now>>
         /\ resp' = Response("bid", u, l, "Bid is not valid.", None)

\* Mutant of Bid: the listing is saved along with the bid, as active.
MutBidReopens(u, l, inp) ==
    /\ l \in ListingIds
    /\ IF DecimalFieldValid(inp)
       THEN /\ BidDecide(u, l, Cleaned(inp), LastBidValue(l))
            /\ listings' = [listings EXCEPT ![l].is_active = TRUE]
       ELSE /\ UNCHANGED <<bids, now, listings>>
            /\ resp' = Response("bid", u, l, "", None)
    /\ UNCHANGED <<watchlist, inflight, closing, viewing>>

\* views.bid run from its first line to its last with no other request in
\* between, for a logged-in user.  A form that is not valid is answered with
\* the redirect alone.  No view deletes a user or a listing, so the save
\* raises no IntegrityError.
Bid(u, l, inp) ==
    /\ l \in ListingIds
    /\ IF DecimalFieldValid(inp)
       THEN BidDecide(u, l, Cleaned(inp), LastBidValue(l))
       ELSE /\ UNCHANGED <<bids, now>>
            /\ resp' = Response("bid", u, l, "", None)
    /\ UNCHANGED <<listings, watchlist, inflight, closing, viewing>>

\* Mutant of Close: a listing with no bid is closed too, with no winner.
MutCloseNoBids(u, l) ==
    /\ l \in ListingIds
    /\ listings' = [listings EXCEPT
                        ![l].winner = IF BidsOf(l) # {} THEN bids[Latest(l)].user
                                      ELSE None,
                        ![l].is_active = FALSE]
    /\ resp' = Response("close", u, l, "Auction closed successfully", None)
    /\ UNCHANGED <<bids, watchlist, now, inflight, closing, viewing>>

\* Mutant of Close: is_active is flipped instead of cleared.
MutCloseToggle(u, l) ==
    /\ l \in ListingIds
    /\ IF BidsOf(l) # {}
       THEN /\ listings' = [listings EXCEPT ![l].winner = bids[Latest(l)].user,
                                            ![l].is_active = ~listings[l].is_active]
            /\ resp' = Response("close", u, l, "Auction closed successfully", None)
       ELSE /\ listings' = listings
            /\ resp' = Response("close", u, l, "Auction could not be closed", None)
    /\ UNCHANGED <<bids, watchlist, now, inflight, closing, viewing>>

\* views.close run from its first line to its last with no other request in
\* between.  request.user is not read.
Close(u, l) ==
    /\ l \in ListingIds
    /\ IF BidsOf(l) # {}
       THEN /\ listings' = [listings EXCEPT ![l].winner = bids[Latest(l)].user,
                                            ![l].is_active = FALSE]
            /\ resp' = Response("close", u, l, "Auction closed successfully", None)
       ELSE /\ listings' = listings
            /\ resp' = Response("close", u, l, "Auction could not be closed", None)
    /\ UNCHANGED <<bids, watchlist, now, inflight, closing, viewing>>

\* views.close up to its save, when the listing has a bid: the listing is
\* loaded, the latest bid is read, and the loaded copy is given the bidder as
\* winner and is_active = False.  (A listing without bids ends the request at
\* this read: that is Close.)  The listing is loaded in a query of its own
\* before the bids are read; no request changes the fields the copy keeps
\* (price, owner), so the two reads are one step here.
CloseRead(u, l) ==
    /\ l \in ListingIds
    /\ closing[u] = NoClose
    /\ BidsOf(l) # {}
    /\ closing' = [closing EXCEPT
                       ![u] = [listing |-> l,
                               row |-> [listings[l] EXCEPT
                                            !.winner = bids[Latest(l)].user,
                                            !.is_active = FALSE]]]
    /\ UNCHANGED <<listings, bids, watchlist, now, inflight, viewing, resp>>

\* views.close from its save on: listing.save() updates every column of the
\* row from the copy the request holds.
CloseWrite(u) ==
    /\ closing[u] # NoClose
    /\ listings' = [listings EXCEPT ![closing[u].listing] = closing[u].row]
    /\ resp' = Response("close", u, closing[u].listing,
                        "Auction closed successfully", None)
    /\ closing' = [closing EXCEPT ![u] = NoClose]
    /\ UNCHANGED <<bids, watchlist, now, inflight, viewing>>

\* views.listing: last_bid, the value of the latest bid, or the starting price
\* on Bid.DoesNotExist.
PageLastBid(l) ==
    IF BidsOf(l) = {} THEN listings[l].price ELSE bids[Latest(l)].value

\* views.listing run from its first line to its last with no other request
\* in between: the context the page is rendered with.
ListingView(u, l) ==
    /\ l \in ListingIds
    /\ resp' = Response("listing", u, l, "", PageLastBid(l))
    /\ UNCHANGED <<listings, bids, watchlist, now, inflight, closing, viewing>>

\* views.listing up to and including its read of the latest bid.
ListingRead(u, l) ==
    /\ l \in ListingIds
    /\ viewing = NoView
    /\ viewing' = [user |-> u, listing |-> l, last_bid |-> PageLastBid(l)]
    /\ UNCHANGED <<listings, bids, watchlist, now, inflight, closing, resp>>

\* views.listing from there on: the bids are counted and the watchlist is
\* read in later queries, for parts of the page that are not kept here, and
\* the page is answered with the last_bid read before.
ListingAnswer(u) ==
    /\ viewing.user = u
    /\ resp' = Response("listing", u, viewing.listing, "", viewing.last_bid)
    /\ viewing' = NoView
    /\ UNCHANGED <<listings, bids, watchlist, now, inflight, closing>>

\* Watchlist.objects.filter(user_id=w, listing_id=l).delete()
WatchlistWithout(w, l) ==
    SelectSeq(watchlist, LAMBDA r : ~(r.user = w /\ r.listing = l))

\* views.watchlist: user_id, listing_id and action are request parameters;
\* request.user is not read.
WatchlistOp(w, l, action) ==
    /\ l \in ListingIds
    /\ IF action = "add"
       THEN /\ Len(watchlist) < MaxWatch
            /\ watchlist' = Append(watchlist, [user |-> w, listing |-> l])
            /\ resp' = Response("watchlist", w, l,
                   "Listing saved on your watchlist successfully.", None)
       ELSE /\ watchlist' = WatchlistWithout(w, l)
            /\ resp' = Response("watchlist", w, l,
                   "Listing removed from your watchlist successfully.", None)
    /\ UNCHANGED <<listings, bids, now, inflight, closing, viewing>>

\* views.bid up to and including the read of the latest bid, for a request
\* whose form is valid.
BidRead(u, l, inp) ==
    /\ l \in ListingIds
    /\ inflight = NoRequest
    /\ DecimalFieldValid(inp)
    /\ inflight' = [user |-> u, listing |-> l, value |-> Cleaned(inp),
                    last_bid |-> LastBidValue(l), datetime |-> None]
    /\ UNCHANGED <<listings, bids, watchlist, now, closing, viewing, resp>>

\* views.bid, the start of new_bid.save() of a request that passed the test
\* with the latest bid it read: auto_now_add reads the clock.
BidStamp(u) ==
    /\ inflight.user = u
    /\ inflight.datetime = None
    /\ BidIsValid(inflight.value, inflight.last_bid, listings[inflight.listing].price)
    /\ Len(bids) < MaxBids
    /\ inflight' = [inflight EXCEPT !.datetime = now]
    /\ now' = now + 1
    /\ UNCHANGED <<listings, bids, watchlist, closing, viewing, resp>>

\* Mutant of BidWrite: the latest bid is read again at the end, and the bid
\* is saved or refused on that.
MutBidWriteRereads(u) ==
    /\ inflight.user = u
    /\ IF BidIsValid(inflight.value, LastBidValue(inflight.listing),
                     listings[inflight.listing].price)
       THEN /\ inflight.datetime # None
            /\ bids' = Append(bids, [value |-> inflight.value,
                                     datetime |-> inflight.datetime,
                                     user |-> u, listing |-> inflight.listing])
            /\ resp' = Response("bid", u, inflight.listing,
                                "Bid placed successfully.", None)
       ELSE /\ bids' = bids
            /\ resp' = Response("bid", u, inflight.listing, "Bid is not valid.", None)
    /\ inflight' = NoRequest
    /\ UNCHANGED <<listings, watchlist, now, closing, viewing>>

\* views.bid, the end of the request: the INSERT of the row with the datetime
\* the save read, or the refusal of a bid that failed the test with the
\* latest bid it read.
BidWrite(u) ==
    /\ inflight.user = u
    /\ IF BidIsValid(inflight.value, inflight.last_bid,
                     listings[inflight.listing].price)
       THEN /\ inflight.datetime # None
            /\ bids' = Append(bids, [value |-> inflight.value,
                                     datetime |-> inflight.datetime,
                                     user |-> u, listing |-> inflight.listing])
            /\ resp' = Response("bid", u, inflight.listing,
                                "Bid placed successfully.", None)
       ELSE /\ bids' = bids
            /\ resp' = Response("bid", u, inflight.listing, "Bid is not valid.", None)
    /\ inflight' = NoRequest
    /\ UNCHANGED <<listings, watchlist, now, closing, viewing>>

\* ------------------------------------------------------- specifications
\* Requests served one at a time.
Next ==
    \/ \E u \in Sellers, inp \in PriceInputs : New(u, inp)
    \/ \E u \in Users, l \in 1 .. MaxListings, inp \in BidInputs : Bid(u, l, inp)
    \/ \E u \in Users, l \in 1 .. MaxListings : Close(u, l)
    \/ \E u \in Users, l \in 1 .. MaxListings : ListingView(u, l)

Spec == Init /\ [][Next]_vars

\* One listing has been published.
InitListed ==
    /\ \E u \in Sellers, inp \in PriceInputs :
          /\ DecimalFieldValid(inp)
          /\ listings = << NewListing(u, inp) >>
          /\ resp = Response("new", u, 1, "Listing published successfully.", None)
    /\ bids = << >>
    /\ watchlist = << >>
    /\ now = 1
    /\ inflight = NoRequest
    /\ closing = [u \in Users |-> NoClose]
    /\ viewing = NoView

\* Bid requests are served one at a time; close requests, one of each user
\* at a time, may be between their read of the latest bid and their save,
\* and one listing page at a time between its read of the latest bid and its
\* answer, while other requests are served.
NextSerial ==
    \/ \E u \in Users, l \in 1 .. MaxListings, inp \in BidInputs : Bid(u, l, inp)
    \/ \E u \in Users, l \in 1 .. MaxListings : Close(u, l)
    \/ \E u \in Users, l \in 1 .. MaxListings : CloseRead(u, l)
    \/ \E u \in Users : CloseWrite(u)
    \/ \E u \in Users, l \in 1 .. MaxListings : ListingView(u, l)
    \/ \E u \in Users, l \in 1 .. MaxListings : ListingRead(u, l)
    \/ \E u \in Users : ListingAnswer(u)

SpecSerial == InitListed /\ [][NextSerial]_vars

\* Bid requests may overlap too: one bid request at a time is between its
\* read of the latest bid, its read of the clock and its insert while other
\* requests are served.
NextRace ==
    \/ NextSerial
    \/ \E u \in Users, l \in 1 .. MaxListings, inp \in BidInputs : BidRead(u, l, inp)
    \/ \E u \in Users : BidStamp(u)
    \/ \E u \in Users : BidWrite(u)

SpecRace == InitListed /\ [][NextRace]_vars

\* The same, with the watchlist requests.
NextAll ==
    \/ NextRace
    \/ \E w \in Watchers, l \in 1 .. MaxListings, action \in {"add", "remove"} :
          WatchlistOp(w, l, action)

SpecAll == InitListed /\ [][NextAll]_vars

\* --------------------------------------------------------------- claims
\* Bid i is a bid of listing l with the greatest datetime.
ClaimIsLatest(i, l) ==
    i \in BidsOf(l) /\ \A j \in BidsOf(l) : bids[j].datetime <= bids[i].datetime

\* The bid of listing l that was inserted last.
ClaimLastInserted(l) == CHOOSE i \in BidsOf(l) : \A j \in BidsOf(l) : j <= i

\* The step ends a request of kind op by user u on listing l (tested first:
\* it is cheap, and every such request answers so).
ClaimAnswers(op, u, l) ==
    resp'.op = op /\ resp'.user = u /\ resp'.listing = l

ClaimBidPlaced(l) ==
    resp.op = "bid" /\ resp.listing = l /\ resp.msg = "Bid placed successfully."

ClaimClosed(l) ==
    resp.op = "close" /\ resp.listing = l /\ resp.msg = "Auction closed successfully"

\* C1: on a listing whose latest bid has value b, a bid with a valid value v
\* is saved if and only if v > b, for every b including 0.
C1_AcceptIffHigher ==
    [][\A u \in Users, l \in 1 .. MaxListings :
         (ClaimAnswers("bid", u, l) /\ BidsOf(l) # {}) =>
             \A inp \in BidInputs :
                 (DecimalFieldValid(inp) /\ Bid(u, l, inp)) =>
                     \E i \in BidsOf(l) :
                         /\ ClaimIsLatest(i, l)
                         /\ ((Len(bids') = Len(bids) + 1)
                                <=> (Cleaned(inp) > bids[i].value))]_vars

\* C2: on a listing with no bid and starting price p, a bid with a valid
\* value v is saved (for this user and listing, with this value) if and only
\* if v >= p.
C2_FirstBidRule ==
    [][\A u \in Users, l \in 1 .. MaxListings :
         (ClaimAnswers("bid", u, l) /\ BidsOf(l) = {}) =>
             \A inp \in BidInputs :
                 (DecimalFieldValid(inp) /\ Bid(u, l, inp)) =>
                     ((/\ Len(bids') = Len(bids) + 1
                       /\ bids'[Len(bids')].value = Cleaned(inp)
                       /\ bids'[Len(bids')].user = u
                       /\ bids'[Len(bids')].listing = l)
                      <=> Cleaned(inp) >= listings[l].price)]_vars

\* C2 witness: a first bid equal to a positive starting price has been saved.
C2_Witness ==
    \E l \in ListingIds :
        /\ ClaimBidPlaced(l)
        /\ listings[l].price > 0
        /\ Cardinality(BidsOf(l)) = 1
        /\ \E i \in BidsOf(l) : bids[i].value = listings[l].price

\* The step is the read of a close request of user u on listing l.
ClaimCloseReads(u, l) ==
    closing[u] = NoClose /\ closing'[u].listing = l

\* The step is the save of the close request of user u, on listing l.
ClaimCloseSaves(u, l) ==
    closing[u].listing = l /\ closing'[u] = NoClose

\* C3: a close of a listing that has a bid takes as winner the bidder of the
\* bid with the greatest datetime among the bids it reads, whatever their
\* values, and its save sets, in one step, winner to that bidder and
\* is_active to false, and changes nothing else.  This holds of a close
\* served whole and of a close that other requests overlap.
C3_CloseSetsLatestBidder ==
    [][(resp'.op = "close" \/ closing' # closing) =>
         \A u \in Users, l \in 1 .. MaxListings :
           /\ (ClaimAnswers("close", u, l) /\ Close(u, l) /\ BidsOf(l) # {}) =>
                  /\ \E i \in BidsOf(l) :
                         ClaimIsLatest(i, l) /\ listings'[l].winner = bids[i].user
                  /\ listings'[l].is_active = FALSE
                  /\ listings'[l].price = listings[l].price
                  /\ listings'[l].owner = listings[l].owner
                  /\ \A k \in ListingIds : k # l => listings'[k] = listings[k]
                  /\ bids' = bids
           /\ (ClaimCloseReads(u, l) /\ CloseRead(u, l)) =>
                  /\ \E i \in BidsOf(l) :
                         ClaimIsLatest(i, l) /\ closing'[u].row.winner = bids[i].user
                  /\ listings' = listings
                  /\ bids' = bids
           /\ (ClaimCloseSaves(u, l) /\ CloseWrite(u)) =>
                  /\ listings'[l].winner = closing[u].row.winner
                  /\ listings'[l].is_active = FALSE
                  /\ listings'[l].price = listings[l].price
                  /\ listings'[l].owner = listings[l].owner
                  /\ \A k \in ListingIds : k # l => listings'[k] = listings[k]
                  /\ bids' = bids]_vars

\* C3 witness: a listing has been closed for the latest bidder while another
\* user holds a bid of greater value.
C3_Witness ==
    \E l \in ListingIds :
        /\ ClaimClosed(l)
        /\ ~listings[l].is_active
        /\ \E i, j \in BidsOf(l) :
               /\ ClaimIsLatest(j, l)
               /\ bids[i].value > bids[j].value
               /\ bids[i].user # bids[j].user
               /\ listings[l].winner = bids[j].user

\* C4: closing a listing that has no bid reports the failure and leaves the
\* listing as it was: active, without winner.
C4_CloseWithoutBids ==
    [][\A u \in Users, l \in 1 .. MaxListings :
         (ClaimAnswers("close", u, l) /\ Close(u, l) /\ BidsOf(l) = {}) =>
             /\ resp'.msg = "Auction could not be closed"
             /\ listings' = listings
             /\ listings'[l].is_active = TRUE
             /\ listings'[l].winner = None
             /\ bids' = bids]_vars

\* C4 witness: a close has failed on a listing without bids, which is still
\* active and without winner.
C4_Witness ==
    \E l \in ListingIds :
        /\ resp.op = "close" /\ resp.listing = l
        /\ resp.msg = "Auction could not be closed"
        /\ BidsOf(l) = {}
        /\ listings[l].is_active
        /\ listings[l].winner = None

\* C5: the winner of a listing changes only in a step that takes is_active
\* from true to false; the winner of a closed listing never changes.
C5_WinnerFrozen ==
    [][\A l \in ListingIds :
         /\ ~listings[l].is_active => listings'[l].winner = listings[l].winner
         /\ listings'[l].winner # listings[l].winner =>
                (listings[l].is_active /\ ~listings'[l].is_active)]_vars

\* C6: a listing that is not active never becomes active again, and
\* is_active changes only in a step of close on that listing.
C6_ClosedStaysClosed ==
    [][\A l \in ListingIds :
         /\ ~listings[l].is_active => ~listings'[l].is_active
         /\ listings'[l].is_active # listings[l].is_active =>
                \E u \in Users : Close(u, l) \/ (ClaimCloseSaves(u, l) /\ CloseWrite(u))]_vars

\* C6 witness: a bid has been placed on a listing that was closed before,
\* and the listing is still closed.
C6_Witness ==
    \E l \in ListingIds :
        /\ ClaimBidPlaced(l)
        /\ ~listings[l].is_active
        /\ \E i \in BidsOf(l) :
               ClaimIsLatest(i, l) /\ bids[i].user # listings[l].winner

\* C7: a close request of a user who is not the owner of the listing leaves
\* the listing unchanged.
C7_OnlyOwnerCloses ==
    [][\A u \in Users, l \in 1 .. MaxListings :
         (ClaimAnswers("close", u, l) /\ Close(u, l) /\ u # listings[l].owner) =>
             listings'[l] = listings[l]]_vars

\* C8: a step that answers a bid request otherwise than with success (the
\* value is refused, or the form is not valid) changes no table.
C8_RejectedBidNoMutation ==
    [][(resp'.op = "bid" /\ resp'.msg # "Bid placed successfully.") =>
           (bids' = bids /\ listings' = listings /\ watchlist' = watchlist)]_vars

\* C8 witness: a bid has been refused on a listing that has bids.
C8_Witness ==
    /\ resp.op = "bid"
    /\ resp.msg = "Bid is not valid."
    /\ BidsOf(resp.listing) # {}

\* C9: a close that directly follows a successful close of the same listing
\* (no bid in between) leaves the listing as the first close left it.
C9_CloseIdempotent ==
    [][\A u \in Users, l \in 1 .. MaxListings :
         (ClaimAnswers("close", u, l) /\ Close(u, l) /\ ClaimClosed(l)) =>
             /\ ~listings[l].is_active
             /\ listings' = listings
             /\ resp'.msg = "Auction closed successfully"]_vars

\* C9 witness: a listing has been closed by a successful close and holds the
\* latest bidder as winner.
C9_Witness ==
    \E l \in ListingIds :
        /\ ClaimClosed(l)
        /\ ~listings[l].is_active
        /\ \E i \in BidsOf(l) :
               ClaimIsLatest(i, l) /\ listings[l].winner = bids[i].user

\* The bids of listing l were saved one after another: each save read the
\* clock after the save before it had inserted its row.
ClaimSavedInSequence(l) ==
    \A i, j \in BidsOf(l) : i < j => bids[i].datetime < bids[j].datetime

\* The value v a page of listing l takes at its read is the value of the bid
\* with the greatest datetime, or the starting price when there is no bid.
ClaimPageLatest(l, v) ==
    IF BidsOf(l) = {}
    THEN v = listings[l].price
    ELSE \E i \in BidsOf(l) : ClaimIsLatest(i, l) /\ v = bids[i].value

\* The value v a page of listing l takes at its read is the value of the bid
\* accepted last: the one inserted last.
ClaimPageLastAccepted(l, v) ==
    BidsOf(l) # {} => v = bids[ClaimLastInserted(l)].value

\* The step is the read of a listing page of user u on listing l.
ClaimPageReads(u, l) ==
    viewing = NoView /\ viewing'.user = u /\ viewing'.listing = l

\* The step is the answer of the listing page of user u on listing l.
ClaimPageAnswers(u, l) ==
    viewing.user = u /\ viewing.listing = l /\ viewing' = NoView

\* C10, as claimed: the price a listing page shows is the value of the bid
\* with the greatest datetime among the bids it reads, or the starting price
\* when there is none, and after any N accepted bids it is the value of the
\* bid accepted last, whatever the values of the earlier bids.
C10_CurrentPrice ==
    [][(resp'.op = "listing" \/ viewing' # viewing) =>
         \A u \in Users, l \in 1 .. MaxListings :
           /\ (ClaimAnswers("listing", u, l) /\ ListingView(u, l)) =>
                  /\ ClaimPageLatest(l, resp'.last_bid)
                  /\ ClaimPageLastAccepted(l, resp'.last_bid)
           /\ (ClaimPageReads(u, l) /\ ListingRead(u, l)) =>
                  /\ ClaimPageLatest(l, viewing'.last_bid)
                  /\ ClaimPageLastAccepted(l, viewing'.last_bid)
           /\ (ClaimPageAnswers(u, l) /\ ClaimAnswers("listing", u, l)
                   /\ ListingAnswer(u)) =>
                  resp'.last_bid = viewing.last_bid]_vars

\* C10, amended: the price a listing page shows is the value of the bid with
\* the greatest datetime among the bids it reads, or the starting price when
\* there is none, and after N accepted bids that were saved one after
\* another it is the value of the bid accepted last, whatever the values of
\* the earlier bids.
C10_CurrentPriceAtRead ==
    [][(resp'.op = "listing" \/ viewing' # viewing) =>
         \A u \in Users, l \in 1 .. MaxListings :
           /\ (ClaimAnswers("listing", u, l) /\ ListingView(u, l)) =>
                  /\ ClaimPageLatest(l, resp'.last_bid)
                  /\ ClaimSavedInSequence(l) =>
                         ClaimPageLastAccepted(l, resp'.last_bid)
           /\ (ClaimPageReads(u, l) /\ ListingRead(u, l)) =>
                  /\ ClaimPageLatest(l, viewing'.last_bid)
                  /\ ClaimSavedInSequence(l) =>
                         ClaimPageLastAccepted(l, viewing'.last_bid)
           /\ (ClaimPageAnswers(u, l) /\ ClaimAnswers("listing", u, l)
                   /\ ListingAnswer(u)) =>
                  resp'.last_bid = viewing.last_bid]_vars

\* C10 witness: a page that read the bids after two bids were saved one
\* after another has been answered with the value of the last bid while the
\* earlier bid has a greater value.
C10_Witness ==
    /\ resp.op = "listing"
    /\ ClaimSavedInSequence(resp.listing)
    /\ \E i, j \in BidsOf(resp.listing) :
           /\ j = ClaimLastInserted(resp.listing)
           /\ bids[i].value > bids[j].value
           /\ resp.last_bid = bids[j].value

\* C11: the read of the latest bid and the write of the new bid are separate
\* steps: a request that read the latest bid (or read that there is none)
\* before another request wrote is decided on what it read, so both are
\* accepted when both pass the test against the same read, whatever was
\* written in between.
C11_WriteDecidesOnRead ==
    [][\A u \in Users :
         (inflight.user = u /\ BidWrite(u)) =>
             ((/\ Len(bids') = Len(bids) + 1
               /\ bids'[Len(bids')].value = inflight.value
               /\ bids'[Len(bids')].user = u
               /\ bids'[Len(bids')].listing = inflight.listing
               /\ resp'.msg = "Bid placed successfully.")
              <=> BidIsValid(inflight.value, inflight.last_bid,
                             listings[inflight.listing].price))]_vars

\* C11 witness: two bids of different users on one listing have been
\* accepted, and the one inserted later, which is also the later by
\* datetime, has a value that is not greater.
C11_Witness ==
    \E l \in ListingIds :
        /\ ClaimBidPlaced(l)
        /\ \E i, j \in BidsOf(l) :
               /\ j = ClaimLastInserted(l)
               /\ i < j
               /\ bids[j].datetime > bids[i].datetime
               /\ bids[j].value <= bids[i].value
               /\ bids[j].user # bids[i].user

\* The bid of listing l with the greatest value, when it is the only one
\* with that value.
ClaimIsHighest(i, l) ==
    i \in BidsOf(l) /\ \A j \in BidsOf(l) : j # i => bids[j].value < bids[i].value

\* The values of the bids of listing l increase strictly with their
\* datetime, and its latest bid is its highest.
ClaimIncreasing(l) ==
    /\ \A i, j \in BidsOf(l) :
           bids[i].datetime < bids[j].datetime => bids[i].value < bids[j].value
    /\ \A i \in BidsOf(l) : ClaimIsLatest(i, l) => ClaimIsHighest(i, l)

\* C12: with the bid requests served one at a time, after every step the
\* values of the bids of a listing increase strictly with their datetime, so
\* the latest bid is the highest, and the winner a close takes when it reads
\* the bids (served whole, or overlapped by other requests before its save)
\* is the bidder of the highest bid.
C12_SequentialBidsIncrease ==
    [][\A l \in ListingIds :
         /\ ClaimIncreasing(l)'
         /\ \A u \in Users :
                /\ (ClaimAnswers("close", u, l) /\ Close(u, l) /\ BidsOf(l) # {}) =>
                       \E i \in BidsOf(l) :
                           ClaimIsHighest(i, l) /\ listings'[l].winner = bids[i].user
                /\ (ClaimCloseReads(u, l) /\ CloseRead(u, l)) =>
                       \E i \in BidsOf(l) :
                           ClaimIsHighest(i, l) /\ closing'[u].row.winner = bids[i].user]_vars

\* C12 witness: a listing with two bids of different users has just been
\* closed for the bidder of the higher, later bid.
C12_Witness ==
    \E l \in ListingIds :
        /\ ClaimClosed(l)
        /\ \E i, j \in BidsOf(l) :
               /\ bids[i].datetime < bids[j].datetime
               /\ bids[i].value < bids[j].value
               /\ bids[i].user # bids[j].user
               /\ listings[l].winner = bids[j].user

\* C13: whatever the interleaving of the bid requests, after every step
\* every saved bid has a value that is at least the starting price of its
\* listing, and no step changes the starting price of a listing.
C13_BidsAtLeastStartingPrice ==
    [][/\ \A l \in ListingIds : listings'[l].price = listings[l].price
       /\ \A i \in 1 .. Len(bids') :
              bids'[i].value >= listings'[bids'[i].listing].price]_vars

\* C13 witness: on a listing with a positive starting price two overlapping
\* requests have both been accepted, the one inserted later with the smaller
\* value, and both values are at least the starting price.
C13_Witness ==
    \E l \in ListingIds :
        /\ listings[l].price > 0
        /\ \E i, j \in BidsOf(l) :
               /\ i < j
               /\ bids[j].value < bids[i].value
               /\ bids[j].value >= listings[l].price

====
